---- MODULE Spec2Model ----
(***************************************************************************)
(* Model of the invoice mutation layer (createInvoice, updateInvoice,      *)
(* deleteInvoice) and of the two read accessors fetchCardData and          *)
(* fetchInvoicesPages, together with the remote store they talk to.        *)
(*                                                                         *)
(* Numbers.  A JavaScript number is represented in fixed point: the        *)
(* integer v stands for v / Scale.  The form text "12.345" is the value    *)
(* 12345, and an amount of 500 cents in the store is 500 * Scale.          *)
(*                                                                         *)
(* Store responses.  A store request settles in one of three ways:         *)
(*   "ok"     the request was carried out, the result has error = null;    *)
(*   "error"  the request was refused, the promise RESOLVES with a result  *)
(*            whose error field is set (and data / count are null);        *)
(*   "reject" the promise REJECTS (the awaiting code sees an exception).   *)
(***************************************************************************)
EXTENDS Integers, Sequences, FiniteSets

VARIABLES
    invoices,   \* the store's invoices table: id -> row, NoRow where there is none
    pc,         \* position of the request in flight, "idle" when none
    op,         \* the operation called last
    form,       \* the submitted form of the call (id for deleteInvoice)
    payload,    \* the values handed to the store write of the call
    resp,       \* how the store settled the write of the call
    events,     \* side effects of the call, in order
    result,     \* how the call ended, and with what
    pre,        \* the invoices table when the call started
    q,          \* fetchCardData: how each of the four queries settled
    reported    \* fetchInvoicesPages: the count the store reported

vars == <<invoices, pc, op, form, payload, resp, events, result, pre, q, reported>>

----------------------------------------------------------------------------
(* Bounds of the model *)

MaxRows == 2

MaxCount == 13

----------------------------------------------------------------------------
(* Representation of values.  The fields of a record are written in the same *)
(* order wherever a record of that shape is built.                           *)

Scale == 1000

NULL == "<null>"

Ids == 1..MaxRows

Customers == {"c1", "c2"}

Today == "today"

SeedRow == [id |-> 1, customer_id |-> "c1", amount |-> 500 * Scale,
            status |-> "pending", date |-> "2024-01-01"]

CustomerIdInputs == {NULL, "c2"}

AmountInputs == {NULL, "abc", "-1", "0", "0.005", "12.345", "20"}

StatusInputs == {NULL, "paid", "overdue"}

Responses == {"ok", "error", "reject"}

NoForm == [id |-> 0, amount |-> NULL, status |-> NULL, customerId |-> NULL]

NoPayload == [customer_id |-> NULL, amount |-> 0, status |-> NULL, date |-> NULL]

NoErrors == [amount |-> <<>>, status |-> <<>>, customerId |-> <<>>]

NoCard == [numberOfCustomers |-> -1, numberOfInvoices |-> -1,
           totalPaidInvoices |-> -1, totalPendingInvoices |-> -1]

NoResult == [kind |-> "none", message |-> NULL, errors |-> NoErrors,
             card |-> NoCard, pages |-> -1]

NoQueries == [i \in 1..4 |-> "idle"]

Null == [isNull |-> TRUE, n |-> 0]

Some(n) == [isNull |-> FALSE, n |-> n]

\* x ?? d
Coalesce(x, d) == IF x.isNull THEN d ELSE x.n

NoCount == Null

----------------------------------------------------------------------------
(* Form validation: FormSchema.omit({id, date}).safeParse *)

\* Number(x) of z.coerce.number(): the fixed-point value of the text, or NaN.
CoerceNumber(x) ==
    CASE x = NULL    -> [nan |-> FALSE, val |-> 0]
      [] x = "abc"   -> [nan |-> TRUE,  val |-> 0]
      [] x = "-1"    -> [nan |-> FALSE, val |-> -1 * Scale]
      [] x = "0"     -> [nan |-> FALSE, val |-> 0]
      [] x = "0.005" -> [nan |-> FALSE, val |-> 5]
      [] x = "12.345" -> [nan |-> FALSE, val |-> 12345]
      [] x = "20"    -> [nan |-> FALSE, val |-> 20 * Scale]

CustomerIdIssues(x) ==
    IF x = NULL THEN <<"Please select a customer.">> ELSE <<>>

AmountIssuesAcceptsZero(x) ==
    LET n == CoerceNumber(x) IN
    IF n.nan THEN <<"Expected number, received nan">>
    ELSE IF ~(n.val >= 0) THEN <<"please enter an amount greater than 0.">>
    ELSE <<>>

AmountIssues(x) ==
    LET n == CoerceNumber(x) IN
    IF n.nan THEN <<"Expected number, received nan">>
    ELSE IF ~(n.val > 0) THEN <<"please enter an amount greater than 0.">>
    ELSE <<>>

StatusIssuesAnyString(x) ==
    IF x = NULL THEN <<"Please select an invoice status.">> ELSE <<>>

StatusIssues(x) ==
    IF x = NULL THEN <<"Please select an invoice status.">>
    ELSE IF x \notin {"pending", "paid"} THEN <<"Invalid enum value.">>
    ELSE <<>>

\* error.flatten().fieldErrors: the list of messages of each field, empty for a
\* valid one
FieldErrors(f) ==
    [amount     |-> AmountIssues(f.amount),
     status     |-> StatusIssues(f.status),
     customerId |-> CustomerIdIssues(f.customerId)]

SafeParse(f) ==
    LET e == FieldErrors(f) IN
    [errors  |-> e,
     success |-> (e.customerId = <<>> /\ e.amount = <<>> /\ e.status = <<>>),
     data    |-> [amount     |-> CoerceNumber(f.amount).val,
                  status     |-> f.status,
                  customerId |-> f.customerId]]

\* amount * 100, in fixed point
AmountInCents(amount) == amount * 100

\* Math.round of a fixed-point value (half rounds up), again in fixed point
Round(x) == ((x + Scale \div 2) \div Scale) * Scale

IsInteger(x) == x % Scale = 0

----------------------------------------------------------------------------
(* The remote store *)

NoRow == [id |-> 0, customer_id |-> NULL, amount |-> 0, status |-> NULL, date |-> NULL]

\* the rows of a table
Rows(t) == {t[i] : i \in {j \in DOMAIN t : t[j] # NoRow}}

EmptyTable == [i \in Ids |-> NoRow]

SeedTable == [i \in Ids |-> IF i = 1 THEN SeedRow ELSE NoRow]

\* the id the store gives the next row
FreeId(t) == CHOOSE i \in DOMAIN t : /\ t[i] = NoRow
                                     /\ \A j \in DOMAIN t : t[j] = NoRow => i <= j

\* insert(p): the store names the new row
StoreInsert(t, p) ==
    [t EXCEPT ![FreeId(t)] = [id |-> FreeId(t), customer_id |-> p.customer_id,
                              amount |-> p.amount, status |-> p.status,
                              date |-> p.date]]

StoreUpdateAllRows(t, id, p) ==
    [i \in DOMAIN t |->
        IF t[i] # NoRow
        THEN [t[i] EXCEPT !.customer_id = p.customer_id, !.amount = p.amount,
                          !.status = p.status]
        ELSE t[i]]

\* update(p).eq('id', id)
StoreUpdate(t, id, p) ==
    [i \in DOMAIN t |->
        IF t[i] # NoRow /\ t[i].id = id
        THEN [t[i] EXCEPT !.customer_id = p.customer_id, !.amount = p.amount,
                          !.status = p.status]
        ELSE t[i]]

\* delete().eq('id', id)
StoreDelete(t, id) ==
    [i \in DOMAIN t |-> IF t[i] # NoRow /\ t[i].id = id THEN NoRow ELSE t[i]]

RECURSIVE SumAmounts(_)
SumAmounts(rows) ==
    IF rows = {} THEN 0
    ELSE LET r == CHOOSE x \in rows : TRUE IN r.amount + SumAmounts(rows \ {r})

----------------------------------------------------------------------------
Init ==
    /\ invoices \in {EmptyTable, SeedTable}
    /\ pc = "idle"
    /\ op = "none"
    /\ form = NoForm
    /\ payload = NoPayload
    /\ resp = "none"
    /\ events = <<>>
    /\ result = NoResult
    /\ pre = invoices
    /\ q = NoQueries
    /\ reported = NoCount

\* what every call resets when it starts
Begin(name, f) ==
    /\ pc = "idle"
    /\ op' = name
    /\ form' = f
    /\ resp' = "none"
    /\ pre' = invoices
    /\ q' = NoQueries
    /\ reported' = NoCount

----------------------------------------------------------------------------
(* createInvoice *)

\* lines 33-61: validate, prepare the row, issue the insert and await it
CreateInvoiceCall(f) ==
    LET v == SafeParse(f) IN
    /\ Begin("create", f)
    /\ events' = <<>>
    /\ UNCHANGED invoices
    /\ IF ~v.success
       THEN /\ pc' = "idle"
            /\ payload' = NoPayload
            /\ result' = [NoResult EXCEPT !.kind = "return", !.errors = v.errors,
                            !.message = "Missing Fields. Failed to Create Invoice."]
       ELSE /\ pc' = "create_await"
            /\ payload' = [customer_id |-> v.data.customerId,
                           amount |-> AmountInCents(v.data.amount),
                           status |-> v.data.status, date |-> Today]
            /\ result' = NoResult

\* the catch of lines 62-67 is entered only when the awaited insert rejects
CreateCatches(r) == r = "reject"

\* lines 61-71: the insert settles, the rest of the handler runs
CreateInvoiceResume(r) ==
    /\ pc = "create_await"
    /\ r = "ok" => \E i \in Ids : invoices[i] = NoRow
    /\ pc' = "idle"
    /\ resp' = r
    /\ invoices' = IF r = "ok" THEN StoreInsert(invoices, payload) ELSE invoices
    /\ IF CreateCatches(r)
       THEN /\ events' = <<"write_fail">>
            /\ result' = [NoResult EXCEPT !.kind = "return",
                            !.message = "Database Error: Failed to Create Invoice."]
       ELSE /\ events' = <<IF r = "ok" THEN "write_ok" ELSE "write_fail",
                           "revalidate", "redirect">>
            /\ result' = [NoResult EXCEPT !.kind = "redirect"]
    /\ UNCHANGED <<op, form, payload, pre, q, reported>>

----------------------------------------------------------------------------
(* updateInvoice *)

\* lines 75-101: read the id, validate, issue the update and await it
UpdateInvoiceCall(f) ==
    LET v == SafeParse(f) IN
    /\ Begin("update", f)
    /\ events' = <<>>
    /\ UNCHANGED invoices
    /\ IF ~v.success
       THEN /\ pc' = "idle"
            /\ payload' = NoPayload
            /\ result' = [NoResult EXCEPT !.kind = "return", !.errors = v.errors,
                            !.message = "Missing Fields. Failed to Update Invoice."]
       ELSE /\ pc' = "update_await"
            /\ payload' = [customer_id |-> v.data.customerId,
                           amount |-> AmountInCents(v.data.amount),
                           status |-> v.data.status, date |-> NULL]
            /\ result' = NoResult

UpdateCatchesRejectOnly(r) == r = "reject"

\* lines 103-112: the error value of the result and a rejection end alike
UpdateCatches(r) == r \in {"error", "reject"}

\* lines 101-114: the update settles, the rest of the handler runs
UpdateInvoiceResume(r) ==
    /\ pc = "update_await"
    /\ pc' = "idle"
    /\ resp' = r
    /\ invoices' = IF r = "ok" THEN StoreUpdate(invoices, form.id, payload) ELSE invoices
    /\ IF UpdateCatches(r)
       THEN /\ events' = <<"write_fail">>
            /\ result' = [NoResult EXCEPT !.kind = "return",
                            !.message = "Database Error: Failed to Update Invoice."]
       ELSE /\ events' = <<IF r = "ok" THEN "write_ok" ELSE "write_fail",
                           "revalidate", "redirect">>
            /\ result' = [NoResult EXCEPT !.kind = "redirect"]
    /\ UNCHANGED <<op, form, payload, pre, q, reported>>

----------------------------------------------------------------------------
(* deleteInvoice *)

\* lines 117-122: issue the delete and await it
DeleteInvoiceCall(id) ==
    /\ Begin("delete", [NoForm EXCEPT !.id = id])
    /\ pc' = "delete_await"
    /\ payload' = NoPayload
    /\ events' = <<>>
    /\ result' = NoResult
    /\ UNCHANGED invoices

DeleteEventsFinally(r) ==
    IF r = "ok" THEN <<"write_ok", "revalidate">> ELSE <<"write_fail", "revalidate">>

\* lines 124-133: the throw of the catch block leaves before revalidatePath
DeleteEvents(r) ==
    IF r = "ok" THEN <<"write_ok", "revalidate">> ELSE <<"write_fail">>

\* line 131: error.message when the caught value is an Error, else the fixed text
DeleteMessages(r) ==
    IF r = "reject" THEN <<"<error.message>">>
    ELSE <<"<error.message>", "Failed to delete invoice.">>

\* lines 122-134: the delete settles, the rest of the handler runs
DeleteInvoiceResume(r) ==
    /\ pc = "delete_await"
    /\ pc' = "idle"
    /\ resp' = r
    /\ invoices' = IF r = "ok" THEN StoreDelete(invoices, form.id) ELSE invoices
    /\ events' = DeleteEvents(r)
    /\ IF r = "ok"
       THEN result' = [NoResult EXCEPT !.kind = "return"]
       ELSE \E k \in 1..Len(DeleteMessages(r)) :
               result' = [NoResult EXCEPT !.kind = "throw",
                                          !.message = DeleteMessages(r)[k]]
    /\ UNCHANGED <<op, form, payload, pre, q, reported>>

----------------------------------------------------------------------------
(* fetchCardData *)

ITEMS_PER_PAGE == 6

\* what the store answers to query i of the Promise.all list: the count of
\* queries 1 and 2, the rows of queries 3 and 4; both are null with an error
QueryCount(i, r, t) ==
    IF r # "ok" THEN Null
    ELSE IF i = 1 THEN Some(Cardinality(Rows(t)))
    ELSE IF i = 2 THEN Some(Cardinality(Customers))
    ELSE Null

QueryData(i, r, t) ==
    IF r # "ok" THEN [isNull |-> TRUE, rows |-> {}]
    ELSE IF i = 3 THEN [isNull |-> FALSE, rows |-> {x \in Rows(t) : x.status = "paid"}]
    ELSE IF i = 4 THEN [isNull |-> FALSE, rows |-> {x \in Rows(t) : x.status = "pending"}]
    ELSE [isNull |-> FALSE, rows |-> Rows(t)]

\* data?.reduce((acc, invoice) => acc + invoice.amount, 0) ?? 0
ReduceOrZero(d) == IF d.isNull THEN 0 ELSE SumAmounts(d.rows)

\* lines 97-107 of data.ts: the aggregate built from the four results
CardAggregate(qs, t) ==
    [numberOfCustomers    |-> Coalesce(QueryCount(2, qs[2], t), 0),
     numberOfInvoices     |-> Coalesce(QueryCount(1, qs[1], t), 0),
     totalPaidInvoices    |-> ReduceOrZero(QueryData(3, qs[3], t)),
     totalPendingInvoices |-> ReduceOrZero(QueryData(4, qs[4], t))]

\* lines 83-95: the four queries are built and handed to Promise.all, which is awaited
FetchCardDataCall ==
    /\ pc = "idle"
    /\ pc' = "card_await"
    /\ op' = "card"
    /\ form' = NoForm
    /\ resp' = "none"
    /\ pre' = invoices
    /\ reported' = NoCount
    /\ q' = [i \in 1..4 |-> "pending"]
    /\ events' = <<"issue", "issue", "issue", "issue", "await">>
    /\ payload' = NoPayload
    /\ result' = NoResult
    /\ UNCHANGED invoices

\* query i settles.  Promise.all rejects with the first rejection and fulfils
\* when the last query has resolved; lines 97-111 then run.
CardSettle(i, r) ==
    LET qs == [q EXCEPT ![i] = r] IN
    /\ pc = "card_await"
    /\ q[i] = "pending"
    /\ q' = qs
    /\ IF r = "reject"
       THEN /\ pc' = "idle"
            /\ result' = [NoResult EXCEPT !.kind = "throw",
                            !.message = "Failed to fetch card data."]
       ELSE IF \A j \in 1..4 : qs[j] # "pending"
       THEN /\ pc' = "idle"
            /\ result' = [NoResult EXCEPT !.kind = "return",
                            !.card = CardAggregate(qs, invoices)]
       ELSE /\ pc' = pc
            /\ result' = result
    /\ UNCHANGED <<invoices, op, form, payload, resp, events, pre, reported>>

----------------------------------------------------------------------------
(* fetchInvoicesPages *)

\* Math.ceil(n / d) for n >= 0, d > 0
Ceil(n, d) == IF n % d = 0 THEN n \div d ELSE n \div d + 1

TotalPagesFloor(count) == Coalesce(count, 0) \div ITEMS_PER_PAGE

\* Math.ceil((count ?? 0) / ITEMS_PER_PAGE)
TotalPages(count) == Ceil(Coalesce(count, 0), ITEMS_PER_PAGE)

Counts == {Null} \cup {Some(n) : n \in 0..MaxCount}

\* the count query (or procedure) is issued and awaited
FetchInvoicesPagesCall ==
    /\ Begin("pages", NoForm)
    /\ pc' = "pages_await"
    /\ events' = <<>>
    /\ payload' = NoPayload
    /\ result' = NoResult
    /\ UNCHANGED invoices

\* the store answers: count c with "ok", an error value, or a rejection
FetchInvoicesPagesResume(r, c) ==
    /\ pc = "pages_await"
    /\ pc' = "idle"
    /\ resp' = r
    /\ IF r = "ok"
       THEN /\ reported' = c
            /\ result' = [NoResult EXCEPT !.kind = "return", !.pages = TotalPages(c)]
       ELSE /\ reported' = Null
            /\ result' = [NoResult EXCEPT !.kind = "throw",
                            !.message = "Failed to fetch total number of invoices."]
    /\ UNCHANGED <<invoices, op, form, payload, events, pre, q>>

\* tables the read accessors may find
PaidRow == [id |-> 2, customer_id |-> "c2", amount |-> 1000 * Scale,
            status |-> "paid", date |-> Today]

QueryInit ==
    /\ invoices \in {[i \in Ids |-> IF i = 1 /\ a THEN SeedRow
                                  ELSE IF i = 2 /\ b THEN PaidRow
                                  ELSE NoRow] : a \in BOOLEAN, b \in BOOLEAN}
    /\ pc = "idle"
    /\ op = "none"
    /\ form = NoForm
    /\ payload = NoPayload
    /\ resp = "none"
    /\ events = <<>>
    /\ result = NoResult
    /\ pre = invoices
    /\ q = NoQueries
    /\ reported = NoCount

QueryNext ==
    \/ FetchCardDataCall
    \/ \E i \in 1..4, r \in Responses : CardSettle(i, r)
    \/ FetchInvoicesPagesCall
    \/ \E r \in Responses, c \in Counts : FetchInvoicesPagesResume(r, c)

QuerySpec == QueryInit /\ [][QueryNext]_vars

----------------------------------------------------------------------------
Next ==
    \/ \E c \in CustomerIdInputs, a \in AmountInputs, s \in StatusInputs :
          CreateInvoiceCall([id |-> 0, amount |-> a, status |-> s, customerId |-> c])
    \/ \E r \in Responses : CreateInvoiceResume(r)
    \/ \E i \in Ids, c \in CustomerIdInputs, a \in AmountInputs, s \in StatusInputs :
          UpdateInvoiceCall([id |-> i, amount |-> a, status |-> s, customerId |-> c])
    \/ \E r \in Responses : UpdateInvoiceResume(r)
    \/ \E i \in Ids : DeleteInvoiceCall(i)
    \/ \E r \in Responses : DeleteInvoiceResume(r)

Spec == Init /\ [][Next]_vars

----------------------------------------------------------------------------
(* Properties *)

Has(e) == \E i \in 1..Len(events) : events[i] = e

Done(name) == pc = "idle" /\ op = name

StoreFailed == resp \in {"error", "reject"}

\* C1: when the store reports an error for the insert of a validated form, by
\* a rejection or by an error value in the resolved result, createInvoice
\* returns the message 'Database Error: Failed to Create Invoice.', raises
\* nothing, and neither invalidates the list view nor redirects.
C1_CreateStoreErrorYieldsMessage ==
    (Done("create") /\ StoreFailed) =>
        /\ result.kind = "return"
        /\ result.message = "Database Error: Failed to Create Invoice."
        /\ ~Has("revalidate")
        /\ ~Has("redirect")

\* C2: fetchCardData issues its four queries before awaiting any of them, and
\* when any of the four fails the call fails as a whole; it never returns an
\* aggregate in which the failed query's value is 0.
C2_CardFailureFailsWholeCall ==
    (op = "card") =>
        /\ SubSeq(events, 1, 5) = <<"issue", "issue", "issue", "issue", "await">>
        /\ (pc = "idle" /\ \E i \in 1..4 : q[i] \in {"error", "reject"})
              => result.kind = "throw"

\* C3 as stated: every deleteInvoice call invalidates the list view after the
\* delete was attempted, also when the store reports an error and the call raises.
C3_DeleteAlwaysInvalidates ==
    Done("delete") => /\ Len(events) = 2
                      /\ events[1] \in {"write_ok", "write_fail"}
                      /\ events[2] = "revalidate"

\* C3 amended: deleteInvoice invalidates the list view, after the delete, exactly
\* when the store delete succeeded; when the store reports an error the call
\* raises to its caller and the list view is not invalidated.
C3_DeleteInvalidatesOnlyOnSuccess ==
    Done("delete") =>
        /\ resp = "ok" => /\ events = <<"write_ok", "revalidate">>
                          /\ result.kind = "return"
        /\ StoreFailed => /\ ~Has("revalidate")
                          /\ result.kind = "throw"

C3_Witness ==
    /\ Done("delete") /\ resp = "error" /\ result.kind = "throw"
    /\ \E r \in Rows(pre) : r.id = form.id

\* the forms the claims call invalid, field by field
AmountInvalid(x) == x \in {NULL, "abc", "-1", "0"}

CustomerIdInvalid(x) == x = NULL

StatusInvalid(x) == x \notin {"pending", "paid"}

FormInvalid(f) ==
    AmountInvalid(f.amount) \/ CustomerIdInvalid(f.customerId) \/ StatusInvalid(f.status)

\* C4: a createInvoice form with an invalid field (amount missing, non-numeric
\* or <= 0; customerId missing; status outside {pending, paid}) issues no store
\* write, invalidates nothing, redirects nowhere, leaves the store as it was and
\* returns an error map with a non-empty entry under each invalid field's key.
C4_InvalidCreateTouchesNothing ==
    (op = "create" /\ FormInvalid(form)) =>
        /\ pc = "idle"
        /\ resp = "none"
        /\ payload = NoPayload
        /\ events = <<>>
        /\ invoices = pre
        /\ result.kind = "return"
        /\ AmountInvalid(form.amount) => Len(result.errors.amount) > 0
        /\ CustomerIdInvalid(form.customerId) => Len(result.errors.customerId) > 0
        /\ StatusInvalid(form.status) => Len(result.errors.status) > 0

C4_Witness ==
    /\ Done("create") /\ form.amount = "-1" /\ form.customerId = NULL
    /\ form.status = "paid"
    /\ Len(result.errors.amount) > 0 /\ Len(result.errors.customerId) > 0
    /\ result.errors.status = <<>>
    /\ Rows(invoices) # {}

\* C5: in createInvoice and updateInvoice, a validated call whose store write
\* succeeds has, in this order, the write completed, the list view invalidated
\* and the caller redirected, and returns no value; and no call redirects
\* without a successful store write before it.
C5_RedirectFollowsSuccessfulWrite ==
    (Done("create") \/ Done("update")) =>
        /\ resp = "ok" => /\ events = <<"write_ok", "revalidate", "redirect">>
                          /\ result.kind = "redirect"
        /\ Has("redirect") => (resp = "ok" /\ events[1] = "write_ok")

\* C6: when the store reports an error for the update of a validated form, by
\* rejection or by an error value, updateInvoice returns the message
\* 'Database Error: Failed to Update Invoice.' and neither invalidates nor redirects.
C6_UpdateStoreErrorYieldsMessage ==
    (Done("update") /\ StoreFailed) =>
        /\ result.kind = "return"
        /\ result.message = "Database Error: Failed to Update Invoice."
        /\ ~Has("revalidate")
        /\ ~Has("redirect")
        /\ invoices = pre

C6_Witness ==
    /\ Done("update") /\ resp = "error" /\ result.kind = "return"
    /\ \E r \in Rows(pre) : r.id = form.id

\* C7: from a store whose rows all have amount > 0 and status in
\* {pending, paid}, every sequence of create, update and delete calls, with
\* valid or invalid forms and store successes or failures, keeps it so.
C7_RowsStayValid ==
    \A r \in Rows(invoices) : r.amount > 0 /\ r.status \in {"pending", "paid"}

C7_Witness ==
    /\ Done("update") /\ resp = "ok" /\ invoices # pre
    /\ \E r \in Rows(invoices) : r.date = Today /\ r.id = form.id

\* C8: for every validated amount a > 0, the amount createInvoice writes to the
\* store is the integer round(a * 100), a whole number of cents.
C8_WrittenAmountIsRoundedCents ==
    (op = "create" /\ (pc = "create_await" \/ (pc = "idle" /\ resp = "ok"))) =>
        /\ IsInteger(payload.amount)
        /\ payload.amount = Round(CoerceNumber(form.amount).val * 100)
        /\ (pc = "idle") => \E r \in Rows(invoices) : r.amount = payload.amount

\* C9: for a matching row count n >= 0 reported by the store,
\* fetchInvoicesPages returns ceil(n / 6): six times the result is at least n,
\* six times (result - 1) is below n when n > 0, and the result is 0 when n = 0
\* or no count (null) is reported.
C9_PagesIsCeiling ==
    (Done("pages") /\ resp = "ok") =>
        LET n == IF reported.isNull THEN 0 ELSE reported.n IN
        /\ result.kind = "return"
        /\ result.pages * 6 >= n
        /\ n > 0 => (result.pages - 1) * 6 < n
        /\ n = 0 => result.pages = 0

C9_Witness ==
    /\ Done("pages") /\ resp = "ok"
    /\ reported = Some(7) /\ result.pages = 2

\* C10: a successful updateInvoice call with id i changes only customer_id,
\* amount and status of the rows with id i: their id and date stay, rows with
\* another id stay as they are, no row is added or removed; with no row of id i
\* the store is unchanged and the call still invalidates and redirects.
C10_UpdateFrame ==
    (Done("update") /\ resp = "ok") =>
        /\ Cardinality(Rows(invoices)) = Cardinality(Rows(pre))
        /\ {r.id : r \in Rows(invoices)} = {r.id : r \in Rows(pre)}
        /\ \A r \in Rows(pre) : r.id # form.id => r \in Rows(invoices)
        /\ \A r \in Rows(pre) : r.id = form.id =>
              [r EXCEPT !.customer_id = payload.customer_id,
                        !.amount = payload.amount,
                        !.status = payload.status] \in Rows(invoices)
        /\ (\A r \in Rows(pre) : r.id # form.id) => invoices = pre
        /\ events = <<"write_ok", "revalidate", "redirect">>
        /\ result.kind = "redirect"

C10_Witness ==
    /\ Done("update") /\ resp = "ok" /\ result.kind = "redirect"
    /\ Cardinality(Rows(pre)) = 2
    /\ invoices # pre
    /\ \E r \in Rows(pre) : r.id # form.id /\ r.customer_id # payload.customer_id

====
